---- MODULE Spec2Model ----
(***************************************************************************)
(* pyburg: the bottom up rewrite generator of ppci (src/ppci/pyburg.py).   *)
(*                                                                         *)
(* Two specifications share the definitions of this module:                *)
(*   SpecBuild  the construction API of BurgSystem (add_terminal,          *)
(*              add_rule), called in any order, failures included;         *)
(*   Spec       BurgGenerator.generate on a system built by that API,      *)
(*              then the generated matcher's gen(tree): burm_label,        *)
(*              the goal check, apply_rules.                               *)
(* State and BaseMatcher live in ppci/tree.py, which is not among the      *)
(* sources; the definitions that model them say so.                        *)
(***************************************************************************)
EXTENDS Integers, Sequences, FiniteSets, TLC

VARIABLES
    system,     \* the BurgSystem: [rules, symbols, goal]
    err,        \* what the last call of the construction API raised ("" = nothing)
    matcher,    \* what generate() emitted: kid_functions, nts_map, num_nts, cases, goal
    tree,       \* the concrete tree handed to gen()
    state,      \* node path -> State.labels of that node (tree.state), once labelled
    todo,       \* the nodes burm_label has still to visit, in its (post) order
    stack,      \* the call stack of apply_rules
    out,        \* the invocations of the action routines P<nr>, in order
    log,        \* what burm_state evaluated, in order (tests, kids, A<nr>, set_cost)
    exc,        \* the exception gen() ended with ("" = none)
    pc          \* where the run is

vars == <<system, err, matcher, tree, state, todo, stack, out, log, exc, pc>>

----------------------------------------------------------------------------
(* Bounds *)

MaxRules == 3       \* rules per grammar
MaxCost == 1        \* rule costs are 0..MaxCost
MaxBuildRules == 2  \* successful add_rule calls per run of SpecBuild
MaxFail == 1        \* failed add_rule calls that leave a rule behind, per run of SpecBuild
MaxDepth == 2       \* depth of the concrete trees
MaxStack == 6       \* depth of the apply_rules recursion the model follows
MaxPatDepth == 3    \* depth of the patterns of SpecDeep
MaxChainRules == 4  \* rules per grammar of SpecChain

----------------------------------------------------------------------------
(* Trees: ppci.tree.Tree(name, *children), as pyburg uses it for patterns  *)
(* (BurgSystem.tree) and as the matcher receives it.                       *)

T(name, kids) == [name |-> name, children |-> kids]

Leaf(name) == T(name, <<>>)

\* None, as self.goal starts; "{}".format(None) is the text None
None == "None"

RECURSIVE Sub(_, _)
\* the node of t at child-index path p: t.children[p1].children[p2]...
\* (indices are 0-based in the source, 1-based here)
Sub(t, p) ==
    IF p = <<>> THEN t ELSE Sub(t.children[Head(p) + 1], Tail(p))

RECURSIVE HasPath(_, _)
\* whether evaluating that expression raises no IndexError
HasPath(t, p) ==
    IF p = <<>> THEN TRUE
    ELSE /\ Head(p) + 1 <= Len(t.children)
         /\ HasPath(t.children[Head(p) + 1], Tail(p))

Range(s) == {s[i] : i \in DOMAIN s}

RECURSIVE Concat(_)
Concat(ss) == IF ss = <<>> THEN <<>> ELSE Head(ss) \o Concat(Tail(ss))

----------------------------------------------------------------------------
(* Grammar model: Rule, Symbol (Term, Nonterm), BurgSystem                 *)

\* Rule.__init__: nr is 0 until add_rule numbers the rule.  The template is
\* opaque text no labelling or selection step reads; it is left out.
Rule(lhs, pattern, cost, acceptance) ==
    [non_term |-> lhs, tree |-> pattern, cost |-> cost,
     acceptance |-> acceptance, nr |-> 0]

\* Term(name) / Nonterm(name): a Nonterm starts with no chain rules (a Term
\* has no such attribute; its list stays empty here)
Symbol(name, t) == [name |-> name, kind |-> t, chain_rules |-> <<>>]

\* BurgSystem.__init__; symbols is the dict in insertion order
NewSystem == [rules |-> <<>>, symbols |-> <<>>, goal |-> None]

\* symType: the names of the symbols of type t, in dict order
symType(sys, t) ==
    LET sel == SelectSeq(sys.symbols, LAMBDA s : s.kind = t)
    IN  [i \in DOMAIN sel |-> sel[i].name]

terminals(sys) == symType(sys, "Term")

non_terminals(sys) == symType(sys, "Nonterm")

\* name in self.symbols
HasSymbol(sys, name) == \E i \in DOMAIN sys.symbols : sys.symbols[i].name = name

\* self.symbols[name]
SymbolOf(sys, name) ==
    sys.symbols[CHOOSE i \in DOMAIN sys.symbols : sys.symbols[i].name = name]

\* install: a known name must have the type asked for (the assert), a new
\* name is entered; [raised, system]
install(sys, name, t) ==
    IF HasSymbol(sys, name)
    THEN [raised |-> IF SymbolOf(sys, name).kind = t THEN "" ELSE "AssertionError",
          system |-> sys]
    ELSE [raised |-> "",
          system |-> [sys EXCEPT !.symbols = Append(@, Symbol(name, t))]]

\* non_term without the check for a terminal
non_term_NoCheck(sys, name) ==
    install([sys EXCEPT !.goal = IF @ = None THEN name ELSE @], name, "Nonterm")

\* non_term: a terminal cannot be redefined; the first name to get here is
\* the goal; then install(name, Nonterm)
non_term(sys, name) ==
    IF name \in Range(terminals(sys))
    THEN [raised |-> "BurgError", system |-> sys]
    ELSE install([sys EXCEPT !.goal = IF @ = None THEN name ELSE @],
                 name, "Nonterm")

add_terminal(sys, terminal) == install(sys, terminal, "Term")

\* chain_rules.append(rule) on the Nonterm called name
AppendChain(sys, name, rule) ==
    [sys EXCEPT !.symbols =
        [i \in DOMAIN sys.symbols |->
            IF sys.symbols[i].name = name
            THEN [sys.symbols[i] EXCEPT !.chain_rules = Append(@, rule)]
            ELSE sys.symbols[i]]]

\* rule.nr = len(self.rules) reaches the rule through every list that holds
\* the object: the last of self.rules and, for a chain rule, the last of the
\* chain list it was appended to in this call
NumberRule(sys, rule, chained) ==
    LET n == Len(sys.rules)
        setnr(rs) == [j \in DOMAIN rs |->
                        IF j = Len(rs) THEN [rs[j] EXCEPT !.nr = n] ELSE rs[j]]
    IN  [rules |-> setnr(sys.rules),
         symbols |-> [i \in DOMAIN sys.symbols |->
                        IF chained /\ sys.symbols[i].name = rule.tree.name
                        THEN [sys.symbols[i] EXCEPT !.chain_rules = setnr(@)]
                        ELSE sys.symbols[i]],
         goal |-> sys.goal]

\* a chain test that forgets to look at the children
IsChainPattern_NoChildCheck(sys, pattern) ==
    pattern.name \notin Range(terminals(sys))

\* whether add_rule files the rule as a chain rule
IsChainPattern(sys, pattern) ==
    /\ Len(pattern.children) = 0
    /\ pattern.name \notin Range(terminals(sys))

\* add_rule, statement by statement; [raised, system]
add_rule(sys, lhs, pattern, cost, acceptance) ==
    LET rule == Rule(lhs, pattern, cost, acceptance)
        chained == IsChainPattern(sys, pattern)
        r1 == non_term(sys, pattern.name)
        s1 == IF chained THEN AppendChain(r1.system, pattern.name, rule) ELSE sys
        r2 == non_term(s1, lhs)
        s3 == [r2.system EXCEPT !.rules = Append(@, rule)]
    IN  IF chained /\ r1.raised # ""
        THEN [raised |-> r1.raised, system |-> r1.system]
        ELSE IF r2.raised # ""
        THEN [raised |-> r2.raised, system |-> s1]
        ELSE [raised |-> "", system |-> NumberRule(s3, rule, chained)]

----------------------------------------------------------------------------
(* Pattern compiler: compute_kids and emittest                             *)

RECURSIVE compute_kids(_, _, _)

\* compute_kids extending the lists at the front
compute_kids_Reversed(sys, t, root_name) ==
    IF t.name \in Range(non_terminals(sys))
    THEN [k |-> <<root_name>>, nts |-> <<t.name>>]
    ELSE LET n == Len(t.children)
             sub == [i \in DOMAIN t.children |->
                        compute_kids(sys, t.children[n + 1 - i],
                                     root_name \o <<n - i>>)]
         IN  [k   |-> Concat([i \in DOMAIN sub |-> sub[i].k]),
              nts |-> Concat([i \in DOMAIN sub |-> sub[i].nts])]

\* compute_kids passing its own position down instead of the child's
compute_kids_NoIndex(sys, t, root_name) ==
    IF t.name \in Range(non_terminals(sys))
    THEN [k |-> <<root_name>>, nts |-> <<t.name>>]
    ELSE LET sub == [i \in DOMAIN t.children |->
                        compute_kids(sys, t.children[i], root_name)]
         IN  [k   |-> Concat([i \in DOMAIN sub |-> sub[i].k]),
              nts |-> Concat([i \in DOMAIN sub |-> sub[i].nts])]

\* the holes of pattern t below root_name: [k, nts], the positions (child
\* index paths, 0-based as in the emitted text) and the categories
compute_kids(sys, t, root_name) ==
    IF t.name \in Range(non_terminals(sys))
    THEN [k |-> <<root_name>>, nts |-> <<t.name>>]
    ELSE LET sub == [i \in DOMAIN t.children |->
                        compute_kids(sys, t.children[i], root_name \o <<i - 1>>)]
         IN  [k   |-> Concat([i \in DOMAIN sub |-> sub[i].k]),
              nts |-> Concat([i \in DOMAIN sub |-> sub[i].nts])]

RECURSIVE emittest(_, _, _)
\* the condition emitted for a pattern: prefix.name == "name" and (test of
\* the 1st child that is no non-terminal) and ...  The conjuncts are kept in
\* the order Python evaluates them; enumerate() numbers the children that
\* survived the filter.
emittest(sys, pattern, prefix) ==
    LET ct == SelectSeq(pattern.children,
                        LAMBDA c : c.name \notin Range(non_terminals(sys)))
        child_tests == [i \in DOMAIN ct |->
                            emittest(sys, ct[i], prefix \o <<i - 1>>)]
    IN  <<[path |-> prefix, name |-> pattern.name]>> \o Concat(child_tests)

RECURSIVE EvalTest(_, _)
\* Python's evaluation of that condition on a node: left to right, stopping
\* at the first false conjunct; reading a child that is not there raises
EvalTest(test, node) ==
    IF test = <<>> THEN "True"
    ELSE IF ~HasPath(node, Head(test).path) THEN "IndexError"
    ELSE IF Sub(node, Head(test).path).name # Head(test).name THEN "False"
    ELSE EvalTest(Tail(test), node)

----------------------------------------------------------------------------
(* Code generator: what generate() writes into the matcher                 *)

\* emitcase walking the rules from the last to the first
emitcase_Reversed(sys, term) ==
    LET rs == SelectSeq(sys.rules, LAMBDA rule : rule.tree.name = term)
    IN  [i \in DOMAIN rs |-> rs[Len(rs) + 1 - i]]

\* the rules emitcase(term) emits a test for, in order
emitcase(sys, term) ==
    SelectSeq(sys.rules, LAMBDA rule : rule.tree.name = term)

\* emit_record that also writes the chain rules of the chain rules'
\* left-hand sides: two hops
emit_record_TwoHops(sys, rule) ==
    LET crs == SymbolOf(sys, rule.non_term).chain_rules
        line(cr, base) == [non_term |-> cr.non_term, cost |-> base + cr.cost,
                           nr |-> cr.nr]
        second == Concat([i \in DOMAIN crs |->
                     LET nxt == SymbolOf(sys, crs[i].non_term).chain_rules
                     IN  [j \in DOMAIN nxt |-> line(nxt[j], crs[i].cost)]])
    IN  [nr |-> rule.nr,
         test |-> emittest(sys, rule.tree, <<>>),
         acc |-> rule.acceptance # "",
         non_term |-> rule.non_term,
         cost |-> rule.cost,
         chain |-> [i \in DOMAIN crs |-> line(crs[i], 0)] \o second]

\* emit_record that writes the chain rules of every non-terminal, not only
\* those of the rule's own
emit_record_AllChains(sys, rule) ==
    LET crs == Concat([i \in DOMAIN sys.symbols |-> sys.symbols[i].chain_rules])
    IN  [nr |-> rule.nr,
         test |-> emittest(sys, rule.tree, <<>>),
         acc |-> rule.acceptance # "",
         non_term |-> rule.non_term,
         cost |-> rule.cost,
         chain |-> [i \in DOMAIN crs |->
                      [non_term |-> crs[i].non_term, cost |-> crs[i].cost,
                       nr |-> crs[i].nr]]]

\* emit_record: the test of one rule and what is recorded when it passes
emit_record(sys, rule) ==
    LET crs == SymbolOf(sys, rule.non_term).chain_rules
    IN  [nr |-> rule.nr,
         test |-> emittest(sys, rule.tree, <<>>),
         acc |-> rule.acceptance # "",
         non_term |-> rule.non_term,
         cost |-> rule.cost,
         chain |-> [i \in DOMAIN crs |->
                      [non_term |-> crs[i].non_term, cost |-> crs[i].cost,
                       nr |-> crs[i].nr]]]

\* emit_state: burm_state is one if per rule, terminal by terminal
emit_state(sys) ==
    LET terms == terminals(sys)
        percase == [i \in DOMAIN terms |->
                      LET rs == emitcase(sys, terms[i])
                      IN  [j \in DOMAIN rs |-> emit_record(sys, rs[j])]]
    IN  Concat(percase)

\* generate: the tables of __init__, the routines P<nr> and A<nr>,
\* burm_state, and gen with the goal written into it
generate(sys) ==
    LET ck(nr) == compute_kids(sys, sys.rules[nr].tree, <<>>)
    IN  [kid_functions |-> [nr \in DOMAIN sys.rules |-> ck(nr).k],
         nts_map |-> [nr \in DOMAIN sys.rules |-> ck(nr).nts],
         num_nts |-> [nr \in DOMAIN sys.rules |-> Len(ck(nr).nts)],
         acceptance |-> [nr \in DOMAIN sys.rules |-> sys.rules[nr].acceptance],
         cases |-> emit_state(sys),
         goal |-> sys.goal]

----------------------------------------------------------------------------
(* The matcher at run time.  State (ppci.tree.State): labels maps a        *)
(* non-terminal to its best [cost, rule].                                  *)

NoLabels == [g \in {} |-> 0]

has_goal(labels, goal) == goal \in DOMAIN labels

get_cost(labels, goal) == labels[goal].cost

get_rule(labels, goal) == labels[goal].rule

\* strictly lower cost wins, equal cost keeps the entry that is there
set_cost(labels, goal, cost, rule) ==
    IF has_goal(labels, goal) /\ ~(get_cost(labels, goal) > cost)
    THEN labels
    ELSE [g \in DOMAIN labels \cup {goal} |->
            IF g = goal THEN [cost |-> cost, rule |-> rule] ELSE labels[g]]

\* A<nr>(tree): the acceptance text of the model's grammars is one of the
\* constant predicates "True" and "False"
AcceptanceResult(text, node) == text = "True"

Event(op, node, rule, goal, cost, result) ==
    [op |-> op, node |-> node, rule |-> rule, goal |-> goal, cost |-> cost,
     result |-> result]

RECURSIVE SumCosts(_, _, _, _)
\* sum(x.state.get_cost(y) for x, y in zip(kids, nts))
SumCosts(st, kidnodes, nts, i) ==
    IF i > Len(kidnodes) THEN 0
    ELSE get_cost(st[kidnodes[i]], nts[i]) + SumCosts(st, kidnodes, nts, i + 1)

RECURSIVE ChainRecord(_, _, _, _, _, _)
\* the set_cost lines emit_record writes for the chain rules of the rule's
\* non-terminal, each offered c + its cost; [labels, log]
ChainRecord(chain, i, node, c, labels, lg) ==
    IF i > Len(chain) THEN [labels |-> labels, log |-> lg]
    ELSE LET cr == chain[i]
         IN  ChainRecord(chain, i + 1, node, c,
                set_cost(labels, cr.non_term, c + cr.cost, cr.nr),
                Append(lg, Event("set_cost", node, cr.nr, cr.non_term,
                                 c + cr.cost, "chain")))

\* the block of emit_record with the acceptance routine called first, before
\* the has_goal check of the holes
RunRecord_AcceptFirst(m, tr, st, node, case, labels, lg) ==
    LET nts == m.nts_map[case.nr]
        ks == m.kid_functions[case.nr]
        sub == Sub(tr, node)
        accepted == AcceptanceResult(m.acceptance[case.nr], sub)
        lg0 == IF case.acc
               THEN Append(lg, Event("A", node, case.nr, "", 0,
                                     IF accepted THEN "True" ELSE "False"))
               ELSE lg
        there == \A i \in DOMAIN ks : HasPath(sub, ks[i])
        kidnodes == [i \in DOMAIN ks |-> node \o ks[i]]
        lg1 == Append(lg0, Event("kids", node, case.nr, "", 0,
                                 IF there THEN "ok" ELSE "IndexError"))
        all == \A i \in DOMAIN ks : has_goal(st[kidnodes[i]], nts[i])
        lg2 == Append(lg1, Event("has_goal", node, case.nr, "", 0,
                                 IF all THEN "True" ELSE "False"))
        c == SumCosts(st, kidnodes, nts, 1) + case.cost
        lg4 == Append(lg2, Event("set_cost", node, case.nr, case.non_term, c,
                                 "rule"))
    IN  IF case.acc /\ ~accepted
        THEN [labels |-> labels, log |-> lg0, exc |-> ""]
        ELSE IF ~there THEN [labels |-> labels, log |-> lg1, exc |-> "IndexError"]
        ELSE IF ~all THEN [labels |-> labels, log |-> lg2, exc |-> ""]
        ELSE LET r == ChainRecord(case.chain, 1, node, c,
                        set_cost(labels, case.non_term, c, case.nr), lg4)
             IN  [labels |-> r.labels, log |-> r.log, exc |-> ""]

\* the block emit_record writes under a rule's test, run on a node whose
\* test passed: nts, kids, the has_goal check, the acceptance routine, then
\* the cost and the set_cost calls; [labels, log, exc]
RunRecord(m, tr, st, node, case, labels, lg) ==
    LET nts == m.nts_map[case.nr]
        ks == m.kid_functions[case.nr]
        sub == Sub(tr, node)
        there == \A i \in DOMAIN ks : HasPath(sub, ks[i])
        kidnodes == [i \in DOMAIN ks |-> node \o ks[i]]
        lg1 == Append(lg, Event("kids", node, case.nr, "", 0,
                                IF there THEN "ok" ELSE "IndexError"))
        all == \A i \in DOMAIN ks : has_goal(st[kidnodes[i]], nts[i])
        lg2 == Append(lg1, Event("has_goal", node, case.nr, "", 0,
                                 IF all THEN "True" ELSE "False"))
        accepted == AcceptanceResult(m.acceptance[case.nr], sub)
        lg3 == IF all /\ case.acc
               THEN Append(lg2, Event("A", node, case.nr, "", 0,
                                      IF accepted THEN "True" ELSE "False"))
               ELSE lg2
        c == SumCosts(st, kidnodes, nts, 1) + case.cost
        lg4 == Append(lg3, Event("set_cost", node, case.nr, case.non_term, c,
                                 "rule"))
    IN  IF ~there THEN [labels |-> labels, log |-> lg1, exc |-> "IndexError"]
        ELSE IF ~all THEN [labels |-> labels, log |-> lg2, exc |-> ""]
        ELSE IF case.acc /\ ~accepted
             THEN [labels |-> labels, log |-> lg3, exc |-> ""]
        ELSE LET r == ChainRecord(case.chain, 1, node, c,
                        set_cost(labels, case.non_term, c, case.nr), lg4)
             IN  [labels |-> r.labels, log |-> r.log, exc |-> ""]

RECURSIVE RunCases(_, _, _, _, _, _, _)
\* the ifs of burm_state from the i-th on; [labels, log, exc]
RunCases(m, tr, st, node, i, labels, lg) ==
    IF i > Len(m.cases) THEN [labels |-> labels, log |-> lg, exc |-> ""]
    ELSE LET case == m.cases[i]
             t == EvalTest(case.test, Sub(tr, node))
             lg1 == Append(lg, Event("test", node, case.nr, "", 0, t))
         IN  IF t = "IndexError"
             THEN [labels |-> labels, log |-> lg1, exc |-> "IndexError"]
             ELSE IF t = "False"
             THEN RunCases(m, tr, st, node, i + 1, labels, lg1)
             ELSE LET r == RunRecord(m, tr, st, node, case, labels, lg1)
                  IN  IF r.exc # "" THEN r
                      ELSE RunCases(m, tr, st, node, i + 1, r.labels, r.log)

\* burm_state(tree): tree.state = State(), then the ifs
burm_state(m, tr, st, node, lg) == RunCases(m, tr, st, node, 1, NoLabels, lg)

RECURSIVE PostOrder(_, _)
\* burm_label: the children first, left to right, then the node itself
PostOrder(t, p) ==
    Concat([i \in DOMAIN t.children |->
                PostOrder(t.children[i], p \o <<i - 1>>)]) \o <<p>>

\* a call of apply_rules(tree, goal): rule = tree.state.get_rule(goal)
Frame(st, node, goal) ==
    [node |-> node, goal |-> goal, rule |-> get_rule(st[node], goal),
     results |-> <<>>]

----------------------------------------------------------------------------
(* The inputs *)

TermNames == {"CONST", "ADD"}

NonTermNames == {"reg", "rc"}

Costs == 0..MaxCost

\* the patterns of the grammars handed to the generator
Patterns ==
    {Leaf("CONST"), Leaf("reg"), Leaf("rc"),
     T("ADD", <<Leaf("reg"), Leaf("reg")>>),
     T("ADD", <<Leaf("reg"), Leaf("CONST")>>)}

Decl(lhs, pattern, cost, acceptance) ==
    [non_term |-> lhs, tree |-> pattern, cost |-> cost, acceptance |-> acceptance]

\* every rule without acceptance text over those patterns, a third
\* non-terminal reached by chain rules only, and three rules with an
\* acceptance routine
Decls ==
    {Decl(l, p, c, "") : l \in NonTermNames, p \in Patterns, c \in Costs}
    \cup {Decl("a", Leaf("rc"), c, "") : c \in Costs}
    \cup {Decl("reg", Leaf("CONST"), MaxCost, "True"),
          Decl("reg", Leaf("CONST"), 0, "False"),
          Decl("reg", T("ADD", <<Leaf("reg"), Leaf("reg")>>), MaxCost, "True")}

RECURSIVE DeclSeqs(_)
\* the sequences of at most n declarations
DeclSeqs(n) ==
    IF n = 0 THEN {<<>>}
    ELSE LET shorter == DeclSeqs(n - 1)
         IN  shorter \cup {Append(ds, d) : ds \in {x \in shorter : Len(x) = n - 1},
                                           d \in Decls}

RECURSIVE DeclareAll(_, _)
\* add_terminal for every name of a set
DeclareAll(sys, names) ==
    IF names = {} THEN sys
    ELSE LET n == CHOOSE x \in names : TRUE
         IN  DeclareAll(add_terminal(sys, n).system, names \ {n})

RECURSIVE AddAll(_, _)
\* add_rule for every declaration of a sequence; [raised, system]
AddAll(sys, ds) ==
    IF ds = <<>> THEN [raised |-> "", system |-> sys]
    ELSE LET d == Head(ds)
             r == add_rule(sys, d.non_term, d.tree, d.cost, d.acceptance)
         IN  IF r.raised # "" THEN r ELSE AddAll(r.system, Tail(ds))

\* the systems a grammar file of at most n rules builds: its terminals, then
\* its rules
BuiltSystems(n) ==
    {AddAll(DeclareAll(NewSystem, TermNames), ds).system : ds \in DeclSeqs(n)}

\* the names of the concrete nodes: the terminals and one name no grammar
\* declares
NodeNames == TermNames \cup {"MEM"}

RECURSIVE TreesOf(_)
\* the concrete trees of depth at most d: a leaf, or an ADD of two trees
TreesOf(d) ==
    IF d = 0 THEN {}
    ELSE {Leaf(n) : n \in NodeNames}
         \cup {T("ADD", <<a, b>>) : a, b \in TreesOf(d - 1)}

Trees == TreesOf(MaxDepth)

\* what SpecBuild calls the construction API with
BuildNames == {"CONST", "reg"}

BuildPatterns ==
    {Leaf("CONST"), Leaf("reg"), Leaf("rc"),
     T("ADD", <<Leaf("reg"), Leaf("reg")>>)}

BuildDecls ==
    {Decl(l, p, 1, "") : l \in {"reg", "rc", "CONST"}, p \in BuildPatterns}

\* the rules a failed add_rule left in a chain list (they were never numbered)
Residue(sys) ==
    LET lens == [i \in DOMAIN sys.symbols |->
                    Len(SelectSeq(sys.symbols[i].chain_rules,
                                  LAMBDA r : r.nr = 0))]
        RECURSIVE Sum(_)
        Sum(i) == IF i = 0 THEN 0 ELSE lens[i] + Sum(i - 1)
    IN  Sum(Len(lens))

----------------------------------------------------------------------------
(* The construction API, call by call *)

Idle ==
    /\ matcher = [goal |-> None]
    /\ tree = Leaf("CONST")
    /\ state = <<>>
    /\ todo = <<>>
    /\ stack = <<>>
    /\ out = <<>>
    /\ log = <<>>
    /\ exc = ""

InitBuild ==
    /\ system = NewSystem
    /\ err = ""
    /\ pc = "build"
    /\ Idle

AddTerminal(name) ==
    /\ pc = "build"
    /\ LET r == add_terminal(system, name)
       IN  /\ system' = r.system
           /\ err' = r.raised
    /\ UNCHANGED <<matcher, tree, state, todo, stack, out, log, exc, pc>>

AddRule(d) ==
    /\ pc = "build"
    /\ LET r == add_rule(system, d.non_term, d.tree, d.cost, d.acceptance)
       IN  /\ Len(r.system.rules) <= MaxBuildRules
           /\ Residue(r.system) <= MaxFail
           /\ system' = r.system
           /\ err' = r.raised
    /\ UNCHANGED <<matcher, tree, state, todo, stack, out, log, exc, pc>>

NextBuild ==
    \/ \E name \in BuildNames : AddTerminal(name)
    \/ \E d \in BuildDecls : AddRule(d)

SpecBuild == InitBuild /\ [][NextBuild]_vars

----------------------------------------------------------------------------
(* generate(), then gen(tree) of the generated matcher *)

Init ==
    /\ system \in BuiltSystems(MaxRules)
    /\ tree \in Trees
    /\ err = ""
    /\ matcher = [goal |-> None]
    /\ state = <<>>
    /\ todo = <<>>
    /\ stack = <<>>
    /\ out = <<>>
    /\ log = <<>>
    /\ exc = ""
    /\ pc = "generate"

\* BurgGenerator.generate(system, output), then the call gen(tree):
\* burm_label starts at the root
Generate ==
    /\ pc = "generate"
    /\ matcher' = generate(system)
    /\ todo' = PostOrder(tree, <<>>)
    /\ pc' = "label"
    /\ UNCHANGED <<system, err, tree, state, stack, out, log, exc>>

\* burm_label reaches burm_state(node): all children are labelled
BurmLabel ==
    /\ pc = "label"
    /\ LET node == Head(todo)
           r == burm_state(matcher, tree, state, node, log)
       IN  /\ log' = r.log
           /\ IF r.exc # ""
              THEN /\ exc' = r.exc
                   /\ pc' = "raised"
                   /\ UNCHANGED <<state, todo>>
              ELSE /\ state' = [n \in DOMAIN state \cup {node} |->
                                  IF n = node THEN r.labels ELSE state[n]]
                   /\ todo' = Tail(todo)
                   /\ pc' = IF Tail(todo) = <<>> THEN "check" ELSE "label"
                   /\ exc' = exc
    /\ UNCHANGED <<system, err, matcher, tree, stack, out>>

\* gen raising "not covered" only for a root without any label
GenCheck_EmptyOnly ==
    /\ pc = "check"
    /\ IF DOMAIN state[<<>>] = {}
       THEN /\ exc' = "NotCovered"
            /\ pc' = "raised"
            /\ stack' = stack
       ELSE IF ~has_goal(state[<<>>], matcher.goal)
       THEN /\ exc' = "KeyError"
            /\ pc' = "raised"
            /\ stack' = stack
       ELSE /\ stack' = <<Frame(state, <<>>, matcher.goal)>>
            /\ pc' = "select"
            /\ exc' = exc
    /\ UNCHANGED <<system, err, matcher, tree, state, todo, out, log>>

\* gen: if not tree.state.has_goal(goal): raise Exception("Tree ... not
\* covered"); otherwise apply_rules(tree, goal) is called
GenCheck ==
    /\ pc = "check"
    /\ IF ~has_goal(state[<<>>], matcher.goal)
       THEN /\ exc' = "NotCovered"
            /\ pc' = "raised"
            /\ stack' = stack
       ELSE /\ stack' = <<Frame(state, <<>>, matcher.goal)>>
            /\ pc' = "select"
            /\ exc' = exc
    /\ UNCHANGED <<system, err, matcher, tree, state, todo, out, log>>

\* apply_rules: the next element of results is computed by a recursive call
\* on the next kid with its category
ApplyCall ==
    /\ pc = "select"
    /\ Len(stack) < MaxStack
    /\ LET f == stack[Len(stack)]
           ks == matcher.kid_functions[f.rule]
           nts == matcher.nts_map[f.rule]
           i == Len(f.results) + 1
       IN  /\ i <= Len(ks)
           /\ LET kid == f.node \o ks[i]
              IN  IF has_goal(state[kid], nts[i])
                  THEN /\ stack' = Append(stack, Frame(state, kid, nts[i]))
                       /\ UNCHANGED <<exc, pc>>
                  ELSE /\ exc' = "KeyError"
                       /\ pc' = "raised"
                       /\ stack' = stack
    /\ UNCHANGED <<system, err, matcher, tree, state, todo, out, log>>

\* apply_rules: results is complete; pat_f[rule](tree, *results) is invoked
\* and its result returned to the caller
ApplyReturn ==
    /\ pc = "select"
    /\ LET f == stack[Len(stack)]
           n == Len(stack)
       IN  /\ Len(f.results) = Len(matcher.kid_functions[f.rule])
           /\ out' = Append(out, [rule |-> f.rule, node |-> f.node,
                                  goal |-> f.goal, args |-> f.results])
           /\ IF n = 1
              THEN /\ stack' = <<>>
                   /\ pc' = "done"
              ELSE /\ stack' = [SubSeq(stack, 1, n - 1) EXCEPT
                                  ![n - 1].results = Append(@, Len(out) + 1)]
                   /\ pc' = pc
    /\ UNCHANGED <<system, err, matcher, tree, state, todo, log, exc>>

Next ==
    \/ Generate
    \/ BurmLabel
    \/ GenCheck
    \/ ApplyCall
    \/ ApplyReturn

Spec == Init /\ [][Next]_vars

----------------------------------------------------------------------------
(* The same matcher on grammars of two rules with nested patterns, each    *)
(* tried on trees of its own shape                                         *)

RECURSIVE PatternsOf(_)
\* the patterns of depth at most d over CONST, ADD and the hole reg
PatternsOf(d) ==
    IF d <= 1 THEN {Leaf("CONST"), Leaf("reg")}
    ELSE {Leaf("CONST"), Leaf("reg")}
         \cup {T("ADD", <<a, b>>) : a, b \in PatternsOf(d - 1)}

RECURSIVE Instance(_, _)
\* the tree of a pattern's shape, with a leaf called name for every hole
Instance(pattern, name) ==
    IF pattern.children = <<>>
    THEN Leaf(IF pattern.name \in NonTermNames THEN name ELSE pattern.name)
    ELSE T(pattern.name,
           [i \in DOMAIN pattern.children |-> Instance(pattern.children[i], name)])

DeepSystem(lhs, pattern) ==
    AddAll(DeclareAll(NewSystem, TermNames),
           <<Decl("reg", Leaf("CONST"), 1, ""), Decl(lhs, pattern, 1, "")>>).system

InitDeep ==
    /\ \E lhs \in NonTermNames : \E pattern \in PatternsOf(MaxPatDepth) :
          /\ system = DeepSystem(lhs, pattern)
          /\ tree \in {Instance(pattern, n) : n \in {"CONST", "MEM"}}
                      \cup {Leaf(n) : n \in NodeNames}
    /\ err = ""
    /\ matcher = [goal |-> None]
    /\ state = <<>>
    /\ todo = <<>>
    /\ stack = <<>>
    /\ out = <<>>
    /\ log = <<>>
    /\ exc = ""
    /\ pc = "generate"

SpecDeep == InitDeep /\ [][Next]_vars

----------------------------------------------------------------------------
(* The same matcher on grammars of chain rules: rules for the leaf CONST,  *)
(* and chain rules between the non-terminals, cycles included              *)

\* reg and rc from CONST, the chain rules between reg and rc in both
\* directions and onto themselves, and a, which only a chain rule yields
ChainDecls ==
    {Decl(l, Leaf("CONST"), c, "") : l \in NonTermNames, c \in Costs}
    \cup {Decl(l, Leaf(x), c, "") : l \in NonTermNames, x \in NonTermNames,
                                    c \in Costs}
    \cup {Decl("a", Leaf("rc"), c, "") : c \in Costs}

RECURSIVE ChainDeclSeqs(_)
\* the sequences of at most n of those declarations
ChainDeclSeqs(n) ==
    IF n = 0 THEN {<<>>}
    ELSE LET shorter == ChainDeclSeqs(n - 1)
         IN  shorter \cup {Append(ds, d) : ds \in {x \in shorter : Len(x) = n - 1},
                                           d \in ChainDecls}

ChainSystems(n) ==
    {AddAll(DeclareAll(NewSystem, TermNames), ds).system : ds \in ChainDeclSeqs(n)}

InitChain ==
    /\ system \in ChainSystems(MaxChainRules)
    /\ tree \in {Leaf(n) : n \in NodeNames}
    /\ err = ""
    /\ matcher = [goal |-> None]
    /\ state = <<>>
    /\ todo = <<>>
    /\ stack = <<>>
    /\ out = <<>>
    /\ log = <<>>
    /\ exc = ""
    /\ pc = "generate"

SpecChain == InitChain /\ [][Next]_vars

----------------------------------------------------------------------------
(* Properties of the construction API (SpecBuild) *)

KindOf(sys, name) == SymbolOf(sys, name).kind

\* the rules that are in some chain list
InChainList(sys, name) == Range(SymbolOf(sys, name).chain_rules)

ChainShaped(sys, rule, name) ==
    /\ Len(rule.tree.children) = 0
    /\ rule.tree.name = name
    /\ name \notin Range(terminals(sys))

\* the rules burm_state tests against the names of concrete nodes
OrdinaryRuleSet(sys) ==
    UNION {Range(emitcase(sys, term)) : term \in Range(terminals(sys))}

\* C8: once a rule has been added, the goal is the left-hand side of the
\* first rule added, a chain rule included.
C8_GoalIsFirstLhs ==
    Len(system.rules) >= 1 => system.goal = system.rules[1].non_term

\* C9: a rule is in the chain list of Y exactly when its pattern has no
\* children and the root name Y, which is no terminal; no such rule is among
\* the rules burm_state tests against node names, and a rule that is not a
\* chain rule is in no chain list.
C9_ChainRegistration ==
    /\ \A i \in DOMAIN system.symbols :
         \A r \in Range(system.symbols[i].chain_rules) :
            ChainShaped(system, r, system.symbols[i].name)
    /\ \A n \in DOMAIN system.rules :
         LET r == system.rules[n]
         IN  (Len(r.tree.children) = 0 /\ r.tree.name \notin Range(terminals(system)))
                => /\ HasSymbol(system, r.tree.name)
                   /\ r \in InChainList(system, r.tree.name)
                   /\ r \notin OrdinaryRuleSet(system)

\* C9 witness: a chain rule and an ordinary rule whose pattern has no
\* children either have both been added
C9_Witness ==
    \E m, n \in DOMAIN system.rules :
        /\ system.rules[m].tree = Leaf("reg")
        /\ system.rules[m] \in InChainList(system, "reg")
        /\ system.rules[n].tree = Leaf("CONST")
        /\ system.rules[n] \in OrdinaryRuleSet(system)

SymbolsWellFormed ==
    /\ \A i, j \in DOMAIN system.symbols :
         system.symbols[i].name = system.symbols[j].name => i = j
    /\ \A i \in DOMAIN system.symbols :
         system.symbols[i].kind \in {"Term", "Nonterm"}
    /\ \A n \in DOMAIN system.rules :
         /\ HasSymbol(system, system.rules[n].non_term)
         /\ KindOf(system, system.rules[n].non_term) = "Nonterm"

KindsKept ==
    \A i \in DOMAIN system.symbols :
        /\ HasSymbol(system', system.symbols[i].name)
        /\ KindOf(system', system.symbols[i].name) = system.symbols[i].kind

CallsFail ==
    /\ \A d \in BuildDecls :
         (AddRule(d) /\ d.non_term \in Range(terminals(system)))
            => /\ err' = "BurgError"
               /\ system'.rules = system.rules
    /\ \A name \in BuildNames :
         /\ (AddTerminal(name) /\ name \in Range(non_terminals(system)))
              => /\ err' = "AssertionError"
                 /\ system' = system
         /\ (AddTerminal(name) /\ name \in Range(terminals(system)))
              => /\ err' = ""
                 /\ system' = system

\* C10: every name of the symbol table has one kind, which never changes;
\* the left-hand side of every rule of the rule list is a non-terminal;
\* add_rule with a terminal as left-hand side fails, add_terminal of a
\* non-terminal fails, add_terminal of a known terminal changes nothing.
C10_OneKindPerName ==
    /\ []SymbolsWellFormed
    /\ [][KindsKept /\ CallsFail]_vars

\* C10 witness: add_rule has just failed on a terminal left-hand side, with a
\* rule in the list and both kinds of symbol in the table
C10_Witness ==
    /\ err = "BurgError"
    /\ Len(system.rules) >= 1
    /\ Range(terminals(system)) # {}
    /\ Range(non_terminals(system)) # {}

----------------------------------------------------------------------------
(* What a grammar means, stated without the generator: patterns, holes and *)
(* covers as the specification describes them.                             *)

IsNonTerm(sys, name) == name \in Range(non_terminals(sys))

IsTerm(sys, name) == name \in Range(terminals(sys))

RECURSIVE RefTest(_, _, _)
\* the structural test: the names agree and every child of the pattern that
\* is no hole is matched by the node's child at the same index
RefTest(sys, pattern, node) ==
    /\ node.name = pattern.name
    /\ \A i \in DOMAIN pattern.children :
          IsNonTerm(sys, pattern.children[i].name)
          \/ /\ i \in DOMAIN node.children
             /\ RefTest(sys, pattern.children[i], node.children[i])

RECURSIVE RefHoles(_, _, _)
\* the holes of a pattern, depth first and left to right:
\* <<position, category>> pairs
RefHoles(sys, pattern, at) ==
    IF IsNonTerm(sys, pattern.name) THEN << <<at, pattern.name>> >>
    ELSE IF pattern.children = <<>> THEN <<>>
    ELSE LET n == Len(pattern.children)
             RECURSIVE upto(_)
             upto(i) == IF i = 0 THEN <<>>
                        ELSE upto(i - 1)
                             \o RefHoles(sys, pattern.children[i], Append(at, i - 1))
         IN  upto(n)

\* a cost no cover of the model's trees reaches
Unreachable == 1000

Min(S) == CHOOSE x \in S : \A y \in S : x <= y

RefIsChain(sys, r) == r.tree.children = <<>> /\ IsNonTerm(sys, r.tree.name)

RECURSIVE RefBest(_, _, _, _)
RECURSIVE RefClosure(_, _, _, _, _)

\* the cheapest cover of the subtree at node p that reduces it to X and ends
\* with an ordinary rule
RefDirect(sys, tr, p, X) ==
    LET node == Sub(tr, p)
        holesOf(r) == RefHoles(sys, r.tree, <<>>)
        fits(r) ==
            /\ r.non_term = X
            /\ IsTerm(sys, r.tree.name)
            /\ RefTest(sys, r.tree, node)
            /\ \A i \in DOMAIN holesOf(r) : HasPath(node, holesOf(r)[i][1])
        RECURSIVE total(_, _)
        total(hs, i) ==
            IF i > Len(hs) THEN 0
            ELSE LET b == RefBest(sys, tr, p \o hs[i][1], hs[i][2])
                 IN  IF b >= Unreachable \/ total(hs, i + 1) >= Unreachable
                     THEN Unreachable
                     ELSE b + total(hs, i + 1)
        costs == {r.cost + total(holesOf(r), 1) :
                    r \in {x \in Range(sys.rules) : fits(x)}}
        finite == {c \in costs : c < Unreachable}
    IN  IF finite = {} THEN Unreachable ELSE Min(finite)

\* ... and then any number (at most k) of chain rules on top
RefClosure(sys, tr, p, X, k) ==
    IF k = 0 THEN RefDirect(sys, tr, p, X)
    ELSE LET via == {r.cost + RefClosure(sys, tr, p, r.tree.name, k - 1) :
                        r \in {x \in Range(sys.rules) :
                                RefIsChain(sys, x) /\ x.non_term = X}}
             all == {c \in via \cup {RefClosure(sys, tr, p, X, k - 1)} :
                        c < Unreachable}
         IN  IF all = {} THEN Unreachable ELSE Min(all)

\* the minimum total rule cost over all covers of the subtree at p that
\* reduce it to X; Unreachable when there is none
RefBest(sys, tr, p, X) ==
    RefClosure(sys, tr, p, X, Len(non_terminals(sys)))

AllAccept(sys) ==
    \A n \in DOMAIN sys.rules : sys.rules[n].acceptance \in {"", "True"}

Labelled == todo = <<>> /\ pc \in {"check", "select", "done", "raised"}

----------------------------------------------------------------------------
(* Properties of the generated matcher *)

\* C1: after labelling, the root has an entry for the goal exactly when some
\* cover reduces the tree to the goal, and the cost recorded is the minimum
\* total rule cost over those covers, chain rules applied any number of times.
C1_MinCostCover ==
    (Labelled /\ AllAccept(system)) =>
        LET best == RefBest(system, tree, <<>>, matcher.goal)
        IN  /\ has_goal(state[<<>>], matcher.goal) <=> best < Unreachable
            /\ has_goal(state[<<>>], matcher.goal)
                  => get_cost(state[<<>>], matcher.goal) = best

\* C2: the emitted test is true exactly when the node's name is the pattern's
\* and, for every child index at which the pattern's child is terminal
\* rooted, the node's child at that same index passes that child's test.
C2_StructuralTest ==
    \A k \in DOMAIN log :
        log[k].op = "test" =>
            ((log[k].result = "True")
                <=> RefTest(system, system.rules[log[k].rule].tree,
                            Sub(tree, log[k].node)))

\* C5: labelling never fails by itself: it raises nothing and leaves a State
\* on every node, also where a node has fewer children than a pattern with
\* its root terminal.
C5_LabelNeverFails ==
    /\ pc = "raised" => exc = "NotCovered"
    /\ Labelled => \A k \in DOMAIN PostOrder(tree, <<>>) :
                        PostOrder(tree, <<>>)[k] \in DOMAIN state

\* C4: gen fails with "Tree ... not covered" exactly when, after labelling,
\* the root has no entry for the goal; no action routine has been invoked
\* then; with the goal entry there is no such failure.
C4_NotCoveredIffNoGoal ==
    /\ exc = "NotCovered" =>
          /\ Labelled
          /\ ~has_goal(state[<<>>], matcher.goal)
          /\ out = <<>>
    /\ (Labelled /\ pc # "check") =>
          (exc = "NotCovered" <=> ~has_goal(state[<<>>], matcher.goal))

\* C4 witness: gen has failed on a tree whose root terminal no rule of a
\* non-empty grammar has
C4_Witness ==
    /\ exc = "NotCovered"
    /\ system.rules # <<>>
    /\ \A n \in DOMAIN system.rules : system.rules[n].tree.name # tree.name

\* the set_cost calls burm_state made at node n for non-terminal X, as
\* positions of the log
Candidates(n, X) ==
    {k \in DOMAIN log : log[k].op = "set_cost" /\ log[k].node = n /\ log[k].goal = X}

Winner(n, X) == state[n][X]

\* the candidates that offered the cost that was kept
Ties(n, X) == {k \in Candidates(n, X) : log[k].cost = Winner(n, X).cost}

\* C7 as claimed: of the rules that yield the same cost the winner is the one
\* considered earlier, which is the one with the lower sequence number.
C7_LowerNumberKept ==
    \A n \in DOMAIN state : \A X \in DOMAIN state[n] :
        /\ \A k \in Candidates(n, X) : Winner(n, X).cost <= log[k].cost
        /\ Ties(n, X) # {}
        /\ Winner(n, X).rule = log[Min(Ties(n, X))].rule
        /\ \A k \in Ties(n, X) : Winner(n, X).rule <= log[k].rule

\* C7 as amended: the winner is the candidate considered first among those of
\* the lowest cost, in the order burm_state considers them: the ordinary rules
\* by sequence number, each followed at once by the chain rules of its
\* left-hand side.  Among ordinary rules the lower number wins a tie; a chain
\* rule may win one against an ordinary rule of a lower number.
C7_FirstWriterKept ==
    /\ \A n \in DOMAIN state : \A X \in DOMAIN state[n] :
          /\ \A k \in Candidates(n, X) : Winner(n, X).cost <= log[k].cost
          /\ Ties(n, X) # {}
          /\ Winner(n, X).rule = log[Min(Ties(n, X))].rule
          /\ \A k \in Ties(n, X) :
                (log[k].result = "rule" /\ log[Min(Ties(n, X))].result = "rule")
                    => Winner(n, X).rule <= log[k].rule
    /\ \A j, k \in DOMAIN log :
          (/\ j < k
           /\ log[j].op = "set_cost" /\ log[k].op = "set_cost"
           /\ log[j].node = log[k].node
           /\ log[j].result = "rule" /\ log[k].result = "rule")
              => log[j].rule < log[k].rule
    /\ \A k \in DOMAIN log :
          (log[k].op = "set_cost" /\ log[k].result = "chain") =>
              /\ k > 1
              /\ log[k - 1].op = "set_cost"
              /\ log[k - 1].node = log[k].node
              /\ \E j \in 1..(k - 1) :
                    /\ log[j].op = "set_cost" /\ log[j].result = "rule"
                    /\ log[j].node = log[k].node
                    /\ \A i \in (j + 1)..(k - 1) : log[i].result = "chain"
                    /\ system.rules[log[k].rule].tree = Leaf(log[j].goal)
                    /\ log[k].cost = log[j].cost + system.rules[log[k].rule].cost

\* C7 witness: a chain rule has kept a tie against an ordinary rule of a
\* lower sequence number
C7_Witness ==
    \E n \in DOMAIN state : \E X \in DOMAIN state[n] :
        \E k \in Ties(n, X) :
            /\ log[k].result = "rule"
            /\ log[k].rule < Winner(n, X).rule
            /\ system.rules[Winner(n, X).rule].tree.children = <<>>
            /\ IsNonTerm(system, system.rules[Winner(n, X).rule].tree.name)

----------------------------------------------------------------------------
(* Properties of the pattern compiler and of selection (SpecDeep) *)

RECURSIVE PathsOf(_)
\* the child-index paths of all nodes of a pattern
PathsOf(t) ==
    {<<>>} \cup UNION {{<<i - 1>> \o p : p \in PathsOf(t.children[i])} :
                            i \in DOMAIN t.children}

\* the non-terminal references of a pattern, as paths
References(sys, pattern) ==
    {p \in PathsOf(pattern) : IsNonTerm(sys, Sub(pattern, p).name)}

RECURSIVE Before(_, _)
\* p comes before q depth first, left to right
Before(p, q) ==
    /\ q # <<>>
    /\ \/ p = <<>>
       \/ Head(p) < Head(q)
       \/ Head(p) = Head(q) /\ Before(Tail(p), Tail(q))

\* C6: compute_kids returns two sequences of equal length, one entry per
\* non-terminal reference of the pattern, depth first and left to right: the
\* child-index path of the reference (the root for a chain rule) and its
\* name; the action routine of the rule takes that many hole parameters.
C6_HolesOfPattern ==
    pc # "generate" =>
        \A nr \in DOMAIN system.rules :
            LET k == matcher.kid_functions[nr]
                nts == matcher.nts_map[nr]
                pattern == system.rules[nr].tree
            IN  /\ Len(k) = Len(nts)
                /\ Len(k) = Cardinality(References(system, pattern))
                /\ Range(k) = References(system, pattern)
                /\ \A i, j \in DOMAIN k : i < j => Before(k[i], k[j])
                /\ \A i \in DOMAIN k : nts[i] = Sub(pattern, k[i]).name
                /\ matcher.num_nts[nr] = Len(k)

\* C6 witness: the matcher has been generated from a rule with several
\* holes, one of them below a nested terminal
C6_Witness ==
    /\ pc # "generate"
    /\ \E nr \in DOMAIN system.rules :
          /\ Len(matcher.kid_functions[nr]) >= 2
          /\ \E i \in DOMAIN matcher.kid_functions[nr] :
                Len(matcher.kid_functions[nr][i]) = 2

\* what an invocation of out, or a frame of the stack, must have received
\* from the holes of its rule: the i-th result comes from the invocation for
\* the i-th hole, left to right, under the hole's category
HoleResults(node, rule, results, limit) ==
    LET holes == RefHoles(system, system.rules[rule].tree, <<>>)
    IN  /\ Len(results) <= Len(holes)
        /\ \A i \in DOMAIN results :
              /\ results[i] \in 1..limit
              /\ out[results[i]].node = node \o holes[i][1]
              /\ out[results[i]].goal = holes[i][2]
        /\ \A i, j \in DOMAIN results : i < j => results[i] < results[j]

\* C3: during selection the winning rule's action is invoked exactly once
\* for every (node, category) visited, only after the selection of all its
\* holes, which are selected left to right under their categories and whose
\* results are passed in that order; the root's action for the goal is last.
C3_SelectionOrder ==
    pc \in {"select", "done"} =>
        /\ \A k \in DOMAIN out :
              /\ out[k].rule = get_rule(state[out[k].node], out[k].goal)
              /\ HoleResults(out[k].node, out[k].rule, out[k].args, k - 1)
              /\ Len(out[k].args)
                    = Len(RefHoles(system, system.rules[out[k].rule].tree, <<>>))
              /\ \A j \in DOMAIN out :
                    (out[j].node = out[k].node /\ out[j].goal = out[k].goal) => j = k
        /\ \A i \in DOMAIN stack :
              /\ stack[i].rule = get_rule(state[stack[i].node], stack[i].goal)
              /\ HoleResults(stack[i].node, stack[i].rule, stack[i].results, Len(out))
              /\ \A k \in DOMAIN out :
                    ~(out[k].node = stack[i].node /\ out[k].goal = stack[i].goal)
              /\ IF i = 1
                 THEN stack[i].node = <<>> /\ stack[i].goal = matcher.goal
                 ELSE LET holes == RefHoles(system,
                                      system.rules[stack[i - 1].rule].tree, <<>>)
                          h == Len(stack[i - 1].results) + 1
                      IN  /\ h <= Len(holes)
                          /\ stack[i].node = stack[i - 1].node \o holes[h][1]
                          /\ stack[i].goal = holes[h][2]
        /\ pc = "select" => stack # <<>>
        /\ pc = "done" =>
              /\ stack = <<>>
              /\ out # <<>>
              /\ out[Len(out)].node = <<>>
              /\ out[Len(out)].goal = matcher.goal
              /\ \A k \in 1..(Len(out) - 1) :
                    Cardinality({j \in DOMAIN out :
                                    \E i \in DOMAIN out[j].args : out[j].args[i] = k}) = 1

\* C3 witness: selection has ended on a tree whose root was covered by a rule
\* with two holes, one of them below a nested terminal
C3_Witness ==
    /\ pc = "done"
    /\ Len(out[Len(out)].args) >= 2
    /\ \E i \in DOMAIN matcher.kid_functions[out[Len(out)].rule] :
          Len(matcher.kid_functions[out[Len(out)].rule][i]) = 2

----------------------------------------------------------------------------
(* add_rule that raises (SpecBuild) *)

\* an add_rule call whose left-hand side is a declared terminal changes
\* nothing of the system
FailedAddRuleKeeps ==
    \A d \in BuildDecls :
        (AddRule(d) /\ d.non_term \in Range(terminals(system)))
            => system' = system

\* every rule of a chain list is a rule of the rule list, numbered from 1
ChainRulesNumbered ==
    \A i \in DOMAIN system.symbols :
        \A r \in Range(system.symbols[i].chain_rules) :
            /\ r.nr >= 1
            /\ r \in Range(system.rules)

\* C15: an add_rule call that fails because its left-hand side is a terminal
\* leaves the rule list, the symbol table, the chain lists and the goal as
\* they were, so every rule of a chain list is in the rule list with a
\* sequence number of at least 1.
C15_FailedAddRuleNoChange ==
    /\ [][FailedAddRuleKeeps]_vars
    /\ []ChainRulesNumbered

----------------------------------------------------------------------------
(* The order of the steps of one rule's block in burm_state (Spec) *)

HasAcceptance(nr) == system.rules[nr].acceptance # ""

\* the events the block of rule nr logged at node n, as positions of the log
BlockEvents(n, nr, op) ==
    {k \in DOMAIN log : log[k].op = op /\ log[k].node = n /\ log[k].rule = nr}

\* C13 as claimed: for every rule with an acceptance predicate whose test
\* matches a node, the predicate is evaluated on the node before the rule's
\* holes are looked up in the children's States, so also when a hole's
\* category is absent in its child.
C13_AcceptanceBeforeHoles ==
    \A k \in DOMAIN log :
        (/\ log[k].op = "has_goal"
         /\ HasAcceptance(log[k].rule)
         /\ matcher.num_nts[log[k].rule] > 0) =>
            \E j \in BlockEvents(log[k].node, log[k].rule, "A") : j < k

\* C13 as amended: the acceptance predicate is evaluated after the holes
\* have been fetched and found present: it directly follows a has_goal check
\* that was true, and it is not evaluated at all when a hole's category is
\* absent in its child.
C13_AcceptanceAfterHoles ==
    /\ \A j \in DOMAIN log :
          log[j].op = "A" =>
             /\ HasAcceptance(log[j].rule)
             /\ j > 2
             /\ log[j - 1] = Event("has_goal", log[j].node, log[j].rule, "", 0, "True")
             /\ log[j - 2] = Event("kids", log[j].node, log[j].rule, "", 0, "ok")
    /\ \A k \in DOMAIN log :
          (log[k].op = "has_goal" /\ HasAcceptance(log[k].rule)) =>
             IF log[k].result = "True"
             THEN /\ k + 1 \in DOMAIN log
                  /\ log[k + 1].op = "A"
                  /\ BlockEvents(log[k].node, log[k].rule, "A") = {k + 1}
             ELSE BlockEvents(log[k].node, log[k].rule, "A") = {}

\* C13 witness: labelling has ended without raising, and at some node a rule
\* with holes and an acceptance predicate passed its test while the category
\* of a hole was absent in the child
C13_Witness ==
    /\ Labelled
    /\ exc = ""
    /\ \E k \in DOMAIN log :
          /\ log[k].op = "has_goal"
          /\ log[k].result = "False"
          /\ HasAcceptance(log[k].rule)
          /\ matcher.num_nts[log[k].rule] > 0

----------------------------------------------------------------------------
(* Chain propagation (SpecChain) *)

RECURSIVE LabelsAt(_, _)
\* the State of node n just before the k-th event of the log: the set_cost
\* calls made at n so far, replayed
LabelsAt(n, k) ==
    IF k <= 1 THEN NoLabels
    ELSE LET e == log[k - 1]
             before == LabelsAt(n, k - 1)
         IN  IF e.op = "set_cost" /\ e.node = n
             THEN set_cost(before, e.goal, e.cost, e.rule)
             ELSE before

\* the chain set_cost calls that wrote an entry
ChainWrites ==
    {k \in DOMAIN log :
        /\ log[k].op = "set_cost"
        /\ log[k].result = "chain"
        /\ LabelsAt(log[k].node, k + 1) # LabelsAt(log[k].node, k)}

\* the direct match a chain set_cost call belongs to: the last set_cost of an
\* ordinary rule before it
DirectOf(k) ==
    Min({k - j : j \in {i \in 1..(k - 1) :
                            log[i].op = "set_cost" /\ log[i].result = "rule"}})

\* the costs the entry of X held at node n at any time
CostsHeld(n, X) ==
    {get_cost(LabelsAt(n, k), X) :
        k \in {i \in 1..(Len(log) + 1) : has_goal(LabelsAt(n, i), X)}}

\* C11: an entry is written through a chain rule Y -> X of cost c only when
\* the direct match has just updated X's entry, and with X's recorded cost at
\* that moment plus c; so after labelling every entry won by a chain rule
\* Y -> X has the cost c plus a cost that X's entry held, never one derived
\* from a direct match that did not become X's entry.
C11_ChainFromBestCost ==
    /\ \A k \in ChainWrites :
          LET n == log[k].node
              j == k - DirectOf(k)
              X == log[j].goal
              cr == system.rules[log[k].rule]
          IN  /\ cr.tree.name = X
              /\ LabelsAt(n, j + 1) # LabelsAt(n, j)
              /\ get_rule(LabelsAt(n, j + 1), X) = log[j].rule
              /\ log[k].cost = get_cost(LabelsAt(n, k), X) + cr.cost
    /\ \A n \in DOMAIN state : \A Y \in DOMAIN state[n] :
          LET cr == system.rules[get_rule(state[n], Y)]
          IN  RefIsChain(system, cr) =>
                 \E b \in CostsHeld(n, cr.tree.name) :
                    get_cost(state[n], Y) = b + cr.cost

----------------------------------------------------------------------------
(* One hop of chain propagation (Spec) *)

\* D: the left-hand sides of the ordinary rules that applied at node n: the
\* test burm_state made of the rule at n passed, the acceptance predicate (if
\* any) is true, and every hole of the pattern finds its category in the
\* State of the child it addresses
AppliedAt(n) ==
    {nr \in DOMAIN system.rules :
        LET r == system.rules[nr]
            holes == RefHoles(system, r.tree, <<>>)
        IN  /\ \E k \in BlockEvents(n, nr, "test") : log[k].result = "True"
            /\ r.acceptance \in {"", "True"}
            /\ \A i \in DOMAIN holes :
                  /\ HasPath(Sub(tree, n), holes[i][1])
                  /\ n \o holes[i][1] \in DOMAIN state
                  /\ has_goal(state[n \o holes[i][1]], holes[i][2])}

DirectAt(n) == {system.rules[nr].non_term : nr \in AppliedAt(n)}

\* the left-hand sides of the chain rules whose pattern is a member of S
OneHop(S) ==
    {r.non_term : r \in {x \in Range(system.rules) :
                            RefIsChain(system, x) /\ x.tree.name \in S}}

\* C12: chain propagation is exactly one hop: after a node is labelled, the
\* non-terminals with an entry are D and the left-hand sides of the chain
\* rules Y -> X with X in D; a non-terminal that only two or more successive
\* chain rules derive has no entry.
C12_OneHopOnly ==
    \A n \in DOMAIN state :
        DOMAIN state[n] = DirectAt(n) \cup OneHop(DirectAt(n))

\* C12 witness: a labelled node at which two successive chain rules derive a
\* non-terminal that one hop does not reach
C12_Witness ==
    \E n \in DOMAIN state :
        LET one == DirectAt(n) \cup OneHop(DirectAt(n))
        IN  /\ DirectAt(n) # {}
            /\ OneHop(DirectAt(n)) \ DirectAt(n) # {}
            /\ OneHop(one) \ one # {}

----------------------------------------------------------------------------
(* Selection ends (Spec) *)

\* every hole of the rule that won X at node n addresses a node whose State
\* has the hole's category
HolesLabelled(n, X) ==
    LET nr == get_rule(state[n], X)
        ks == matcher.kid_functions[nr]
        nts == matcher.nts_map[nr]
    IN  \A i \in DOMAIN ks :
            /\ n \o ks[i] \in DOMAIN state
            /\ has_goal(state[n \o ks[i]], nts[i])

RECURSIVE NoRevisit(_, _, _)
\* following the winning rules from (n, X) never comes back to a pair in
\* seen; only a hole at the node itself (a chain rule's) can stay at n
NoRevisit(n, X, seen) ==
    LET nr == get_rule(state[n], X)
        ks == matcher.kid_functions[nr]
        nts == matcher.nts_map[nr]
    IN  /\ X \notin seen
        /\ \A i \in DOMAIN ks :
              (ks[i] = <<>> /\ has_goal(state[n], nts[i]))
                 => NoRevisit(n, nts[i], seen \cup {X})

\* C14: selection always ends without a missing entry: on a labelled tree,
\* following winning rules from any entry never revisits a (node,
\* non-terminal) pair, every hole of a winning rule finds its category in
\* the State of the node it addresses, and so the recursion of apply_rules
\* from the root's goal entry fails on no lookup and nests no pair twice.
C14_SelectionEnds ==
    /\ \A n \in DOMAIN state : \A X \in DOMAIN state[n] :
          /\ HolesLabelled(n, X)
          /\ NoRevisit(n, X, {})
    /\ exc # "KeyError"
    /\ \A i, j \in DOMAIN stack :
          (stack[i].node = stack[j].node /\ stack[i].goal = stack[j].goal)
             => i = j
    /\ Len(stack) < MaxStack

\* C14 witness: selection has ended under a grammar whose chain rules
\* rc -> reg and reg -> rc form a cycle, and the action of a chain rule was
\* invoked on the way
C14_Witness ==
    /\ pc = "done"
    /\ \E a, b \in DOMAIN system.rules :
          /\ system.rules[a].non_term = "rc" /\ system.rules[a].tree = Leaf("reg")
          /\ system.rules[b].non_term = "reg" /\ system.rules[b].tree = Leaf("rc")
    /\ \E k \in DOMAIN out : RefIsChain(system, system.rules[out[k].rule])

====
